---------------------------- MODULE Spec2Model ----------------------------
(***************************************************************************)
(* Model of the point-field visualization of lira-public                  *)
(* (frontend/src/components/EmotionCanvasWrapper.tsx) and of the emotion  *)
(* store it reads (frontend/src/api/liraResponse.ts).                     *)
(*                                                                         *)
(* Real numbers are fixed point:                                          *)
(*   positions of the blend spring  : 1.0 = One (10^9)                    *)
(*   velocities of the blend spring : One per millisecond                 *)
(*   times                          : milliseconds                        *)
(*   point coordinates              : 1.0 = Unit (10^4)                   *)
(*   angles                         : micro-radians                       *)
(*   colour channels                : bytes, 1.0 = 255                    *)
(***************************************************************************)
EXTENDS Integers, Sequences, FiniteSets, TLC

VARIABLES
    store,        \* the zustand emotion store (useEmotionStore)
    observed,     \* the isProcessing value the component rendered with last
    spring,       \* the mixFactor SpringValue of useSpring
    clock,        \* elapsed time of the view's clock, in ms
    uniforms,     \* the shader material's uniforms uTime and uMixFactor
    shaderRef,    \* TRUE iff shaderRef.current is set
    subscribed,   \* TRUE iff the useFrame callback is registered (view alive)
    buffers,      \* spherePositions, wavePositions, pastelColors
    lastAct,      \* history: the operation that produced this state
    flips,        \* history: number of flips of isProcessing so far
    sinceTarget,  \* history: frame ticks since the spring target last changed
    count,        \* the point count the factory ran with (const count)
    axis,         \* the axis main passes to rotate
    rendered,     \* per point, the output of the shaders in the last frame
    chat          \* ChatPage: input text, message list, requests in flight

vars == << store, observed, spring, clock, uniforms, shaderRef, subscribed,
           buffers, lastAct, flips, sinceTarget, count, axis, rendered, chat >>

---------------------------------------------------------------------------
(* Bounds of the model *)

\* frame ticks explored in one view activation
MaxTicks == 110

\* flips of the processing flag explored
MaxFlips == 2

\* the collaborator flips the flag only at every FlipEvery-th frame
FlipEvery == 3

\* duration of one display refresh tick, in ms
FrameMs == 16

\* points of the field (2000 in the source)
Count == 5

\* ticks and flips explored when every colour draw is explored
FieldTicks == 3

FieldFlips == 1

---------------------------------------------------------------------------
(* Arithmetic helpers *)

Abs(x) == IF x < 0 THEN -x ELSE x

Min(a, b) == IF a < b THEN a ELSE b

\* division rounding to the nearest integer (b > 0)
RoundDiv(a, b) == IF a >= 0 THEN (a + b \div 2) \div b
                            ELSE -(((-a) + b \div 2) \div b)

\* 1.0 of the blend factor
One == 1000000000

---------------------------------------------------------------------------
(* The emotion store: liraResponse.ts, useEmotionStore *)

\* scores are in tenths: 0.3 is 3
InitialStore ==
    [ emotion_1st_label |-> "neutral", emotion_1st_score |-> 3,
      emotion_2nd_label |-> "neutral", emotion_2nd_score |-> 0,
      emotion_3rd_label |-> "neutral", emotion_3rd_score |-> 0,
      emotion_mode |-> "central", isProcessing |-> FALSE ]

\* set({ isProcessing: processing })
StoreSetIsProcessing(s, processing) == [s EXCEPT !.isProcessing = processing]

\* zustand's set(partial): the named fields are replaced, the others kept
StoreSet(s, partial) ==
    [ k \in DOMAIN s |-> IF k \in DOMAIN partial THEN partial[k] ELSE s[k] ]

\* set((state) => ({ ...state, ...newState }))
StoreSetEmotion(s, newState) == StoreSet(s, newState)

\* resetEmotion: set({ ... }) of the labels, the scores and isProcessing
StoreResetEmotion(s) ==
    StoreSet(s, [ emotion_1st_label |-> "neutral", emotion_1st_score |-> 3,
                  emotion_2nd_label |-> "neutral", emotion_2nd_score |-> 0,
                  emotion_3rd_label |-> "neutral", emotion_3rd_score |-> 0,
                  isProcessing |-> FALSE ])

\* emotion labels and scores (in tenths) that callers pass
Labels == { "neutral", "joy", "sadness" }

Scores == { 0, 3, 9 }

\* the arguments of setEmotion: any part of the state
NewStates ==
    { [ emotion_1st_label |-> l, emotion_1st_score |-> x ] :
          l \in Labels, x \in Scores }
    \cup { [ emotion_2nd_label |-> l, emotion_2nd_score |-> x ] :
              l \in Labels, x \in Scores }
    \cup { [ emotion_3rd_label |-> l, emotion_3rd_score |-> x ] :
              l \in Labels, x \in Scores }
    \cup { [ emotion_mode |-> m ] : m \in { "central", "wave" } }
    \cup { [ isProcessing |-> b ] : b \in BOOLEAN }

---------------------------------------------------------------------------
(* MorphController: useSpring({ mixFactor: isProcessing ? 1 : 0, config }) *)

Mass == 2

Tension == 170

\* a spring that is hardly damped
FrictionLow == 26 \div 3

Friction == 26

\* the two goals swapped
SpringTargetSwapped(processing) == IF processing THEN 0 ELSE 1

\* mixFactor: isProcessing ? 1 : 0
SpringTarget(processing) == IF processing THEN 1 ELSE 0

\* the spring as useSpring creates it on the first render: at rest on its goal
NewSpring(processing) ==
    [ to |-> SpringTarget(processing), from |-> SpringTarget(processing) * One,
      position |-> SpringTarget(processing) * One, velocity |-> 0, done |-> TRUE ]

\* a retarget that restarts the animation from the goal it was heading to
UseSpringFromGoal(s, processing) ==
    IF SpringTarget(processing) = s.to THEN s
    ELSE [s EXCEPT !.to = SpringTarget(processing), !.from = s.to * One,
                   !.position = s.to * One, !.velocity = 0, !.done = FALSE]

\* a retarget that jumps to the new goal (immediate)
UseSpringImmediate(s, processing) ==
    IF SpringTarget(processing) = s.to THEN s
    ELSE [s EXCEPT !.to = SpringTarget(processing),
                   !.from = SpringTarget(processing) * One,
                   !.position = SpringTarget(processing) * One,
                   !.velocity = 0, !.done = TRUE]

\* a spring whose goal is fixed by the first render
UseSpringStale(s, processing) == s

\* useSpring on a re-render: a changed goal restarts the animation from the
\* live position with the live velocity; an unchanged goal is a no-op
UseSpring(s, processing) ==
    IF SpringTarget(processing) = s.to THEN s
    ELSE [s EXCEPT !.to = SpringTarget(processing), !.from = s.position,
                   !.done = FALSE]

\* rest thresholds of the animation (defaults, no precision in config)
Precision(s) == IF s.from = s.to * One THEN One \div 200
                ELSE Min(One, Abs(s.to * One - s.from) \div 1000)

RestVelocity(s) == Precision(s) \div 10

\* one 1 ms step of the damped spring (semi-implicit Euler)
SpringStep(s) ==
    LET force == -(Tension * RoundDiv(s.position - s.to * One, 1000)
                   + Friction * s.velocity)
        acceleration == RoundDiv(force, 1000 * Mass)
        velocity == s.velocity + acceleration
    IN  [s EXCEPT !.velocity = velocity, !.position = s.position + velocity]

AtRest(s) == /\ Abs(s.velocity) <= RestVelocity(s)
             /\ Abs(s.to * One - s.position) <= Precision(s)

\* the animation advanced by n ms: it stops on its goal once it is at rest
RECURSIVE Advance(_, _)
Advance(s, n) ==
    IF s.done THEN s
    ELSE IF AtRest(s)
         THEN [s EXCEPT !.position = s.to * One, !.velocity = 0, !.done = TRUE]
    ELSE IF n = 0 THEN s
    ELSE Advance(SpringStep(s), n - 1)

---------------------------------------------------------------------------
(* PointFieldGenerator: the useMemo factory of EmotionParticles *)

\* 1.0 of a point coordinate
Unit == 10000

\* pi, 2*pi and the golden angle pi*(3 - sqrt(5)), in micro-radians
PiMicro == 3141593

TwoPiMicro == 2 * PiMicro

IncrementMicro == 2399963

\* const numLines = 5
NumLines == 5

\* the five pastel colours of colorPalette, as (r, g, b) bytes
ColorPalette ==
    << <<255, 221, 193>>, <<255, 171, 171>>, <<221, 255, 221>>,
       <<167, 199, 231>>, <<241, 203, 255>> >>

\* Math.floor(Math.random() * colorPalette.length), one draw per point
Draws(n) == [0..n - 1 -> 0..Len(ColorPalette) - 1]

\* Math.sqrt on fixed point: the largest r with r*r <= n
RECURSIVE SqrtBits(_, _, _)
SqrtBits(n, r, bit) ==
    IF bit = 0 THEN r
    ELSE IF (r + bit) * (r + bit) <= n THEN SqrtBits(n, r + bit, bit \div 2)
    ELSE SqrtBits(n, r, bit \div 2)

Sqrt(n) == SqrtBits(n, 0, 16384)

\* Math.sin of an angle x (1.0 = Unit) in [-pi/2, pi/2]: its Taylor series
RECURSIVE SinSeries(_, _, _, _)
SinSeries(x2, term, k, acc) ==
    IF k > 7 THEN acc
    ELSE LET next == -RoundDiv(RoundDiv(term * x2, Unit), (2 * k) * (2 * k + 1))
         IN  SinSeries(x2, next, k + 1, acc + next)

\* Math.sin of an angle in micro-radians, result with 1.0 = Unit
Sin(micro) ==
    LET m == micro % TwoPiMicro
        a == IF m > PiMicro THEN m - TwoPiMicro ELSE m
        b == IF 2 * a > PiMicro THEN PiMicro - a
             ELSE IF 2 * a < -PiMicro THEN -PiMicro - a ELSE a
        x == RoundDiv(b, 100)
    IN  SinSeries(RoundDiv(x * x, Unit), x, 1, x)

\* Math.cos of an angle in micro-radians
Cos(micro) == Sin(micro + PiMicro \div 2)

\* a sphere layout that fills the ball: the ring radius is not applied
SphereLayoutFlat(n) ==
    [ i \in 0..n - 1 |->
        LET y == RoundDiv((2 * i + 1) * Unit, n) - Unit
            phi == i * IncrementMicro
            x == RoundDiv(Cos(phi) * y, Unit)
            z == RoundDiv(Sin(phi) * y, Unit)
        IN  << RoundDiv(x * 5, 2), RoundDiv(y * 5, 2), RoundDiv(z * 5, 2) >> ]

\* the sphere layout: an equal-area spiral on the sphere of radius 2.5
SphereLayout(n) ==
    [ i \in 0..n - 1 |->
        LET y == RoundDiv((2 * i + 1) * Unit, n) - Unit
            r == Sqrt(Unit * Unit - y * y)
            phi == i * IncrementMicro
            x == RoundDiv(Cos(phi) * r, Unit)
            z == RoundDiv(Sin(phi) * r, Unit)
        IN  << RoundDiv(x * 5, 2), RoundDiv(y * 5, 2), RoundDiv(z * 5, 2) >> ]

\* a wave layout whose lines run from right to left
WaveLayoutMirrored(n) ==
    [ i \in 0..n - 1 |->
        LET lineIndex == (i * NumLines) \div n
            onLine == (i * NumLines) % n
            x == RoundDiv(5 * Unit, 2) - RoundDiv(onLine * 5 * Unit, n)
            y == RoundDiv(lineIndex * 3 * Unit, 10)
                 - RoundDiv(NumLines * 3 * Unit, 20)
        IN  << x, y, 0 >> ]

\* the wave layout: numLines horizontal lines, 5 wide, 0.3 apart
WaveLayout(n) ==
    [ i \in 0..n - 1 |->
        LET lineIndex == (i * NumLines) \div n
            onLine == (i * NumLines) % n
            x == RoundDiv(onLine * 5 * Unit, n) - RoundDiv(5 * Unit, 2)
            y == RoundDiv(lineIndex * 3 * Unit, 10)
                 - RoundDiv(NumLines * 3 * Unit, 20)
        IN  << x, y, 0 >> ]

\* the colour of every point: the palette entry of its draw
PastelColors(n, draws) ==
    [ i \in 0..n - 1 |-> ColorPalette[draws[i] + 1] ]

\* new Float32Array(n * 3) succeeds unless the length is negative
Allocates(n) == n * 3 >= 0

\* the buffers of a view whose factory threw
NoBuffers == [ spherePositions |-> << >>, wavePositions |-> << >>,
               pastelColors |-> << >> ]

\* the value the factory returns
Generate(n, draws) ==
    [ spherePositions |-> SphereLayout(n),
      wavePositions |-> WaveLayout(n),
      pastelColors |-> PastelColors(n, draws) ]

\* the factory run again on every render
UseMemoFieldRecompute(cached, fresh) == fresh

\* useMemo(factory, []): a re-render gets the value cached by the first render
UseMemoField(cached, fresh) == cached

\* the material rebuilt from fresh shaderArgs on every render
UseMemoShaderArgsRebuilt(u) == [uTime |-> 0, uMixFactor |-> 0]

\* useMemo(() => shaderArgs, []): the material keeps its uniforms on re-render
UseMemoShaderArgs(u) == u

\* the uniforms of shaderArgs
InitialUniforms == [uTime |-> 0, uMixFactor |-> 0]

---------------------------------------------------------------------------
(* TransformPipeline: vertexShader and fragmentShader *)

\* vec3(0.0, 1.0, 0.0), the axis main passes to rotate
PipelineAxis == << 0, 1, 0 >>

\* a vector whose components are undefined (NaN)
Undefined == << >>

\* the product of two fixed-point numbers
Mul(a, b) == RoundDiv(a * b, Unit)

\* length(axis), for an axis with integer components
Length(a) == Sqrt((a[1] * a[1] + a[2] * a[2] + a[3] * a[3]) * Unit * Unit)

\* normalize(axis), for an axis that is not zero
Normalize(a) == [k \in 1..3 |-> RoundDiv(a[k] * Unit * Unit, Length(a))]

\* axis = normalize(axis): undefined for the zero axis, where the division
\* 0/0 yields NaN on some GPUs and 0 on others
NormalizeOutcomes(a) ==
    IF Length(a) = 0 THEN { Undefined, << 0, 0, 0 >> }
    ELSE { Normalize(a) }

\* the arguments of mat4 read row by row: the transposed matrix
RotationMatrixRowMajor(a, angle) ==
    LET s == Sin(angle)
        c == Cos(angle)
        oc == Unit - c
    IN  << << Mul(Mul(oc, a[1]), a[1]) + c, Mul(Mul(oc, a[1]), a[2]) + Mul(a[3], s),
              Mul(Mul(oc, a[3]), a[1]) - Mul(a[2], s) >>,
           << Mul(Mul(oc, a[1]), a[2]) - Mul(a[3], s), Mul(Mul(oc, a[2]), a[2]) + c,
              Mul(Mul(oc, a[2]), a[3]) + Mul(a[1], s) >>,
           << Mul(Mul(oc, a[3]), a[1]) + Mul(a[2], s),
              Mul(Mul(oc, a[2]), a[3]) - Mul(a[1], s), Mul(Mul(oc, a[3]), a[3]) + c >> >>
\* (GLSL fills a matrix column by column), without its last row and column
RotationMatrix(a, angle) ==
    LET s == Sin(angle)
        c == Cos(angle)
        oc == Unit - c
    IN  << << Mul(Mul(oc, a[1]), a[1]) + c, Mul(Mul(oc, a[1]), a[2]) - Mul(a[3], s),
              Mul(Mul(oc, a[3]), a[1]) + Mul(a[2], s) >>,
           << Mul(Mul(oc, a[1]), a[2]) + Mul(a[3], s), Mul(Mul(oc, a[2]), a[2]) + c,
              Mul(Mul(oc, a[2]), a[3]) - Mul(a[1], s) >>,
           << Mul(Mul(oc, a[3]), a[1]) - Mul(a[2], s),
              Mul(Mul(oc, a[2]), a[3]) + Mul(a[1], s), Mul(Mul(oc, a[3]), a[3]) + c >> >>

\* rotate: (m * vec4(v, 1.0)).xyz; undefined when the axis is
Rotate(v, a, angle) ==
    IF a = Undefined THEN Undefined
    ELSE LET m == RotationMatrix(a, angle)
         IN  [k \in 1..3 |->
                 RoundDiv(v[1] * m[1][k] + v[2] * m[2][k] + v[3] * m[3][k], Unit)]

\* an interpolation with its two ends swapped
MixSwapped(x, y, t) == [k \in 1..3 |-> RoundDiv(y[k] * (Unit - t) + x[k] * t, Unit)]

\* mix(x, y, a) = x * (1 - a) + y * a, component by component
Mix(x, y, t) == [k \in 1..3 |-> RoundDiv(x[k] * (Unit - t) + y[k] * t, Unit)]

\* sin(wavePosition.x * 2.0 + uTime) * 0.3, uTime in ms
WaveMovement(wave, uTime) ==
    RoundDiv(Sin(wave[1] * 200 + uTime * 1000) * 3, 10)

\* animatedWavePoint
AnimatedWavePoint(wave, uTime) ==
    << wave[1], wave[2] + WaveMovement(wave, uTime), wave[3] >>

\* main of the vertex shader for one point: vColor, morphedPosition and
\* rotatedPosition (before the camera matrices); a is the normalized axis
VertexShader(sphere, wave, color, u, a) ==
    LET morphed == Mix(sphere, AnimatedWavePoint(wave, u.uTime),
                       RoundDiv(u.uMixFactor, One \div Unit))
    IN  [ vColor |-> color,
          morphed |-> morphed,
          position |-> Rotate(morphed, a, u.uTime * 100) ]

\* a fragment shader that dims the colour
FragmentShaderDimmed(vColor) ==
    << vColor[1] \div 2, vColor[2] \div 2, vColor[3] \div 2, 255 >>

\* main of the fragment shader: gl_FragColor = vec4(vColor, 1.0)
FragmentShader(vColor) == << vColor[1], vColor[2], vColor[3], 255 >>

\* one frame drawn: both shaders run for every point
DrawFrame(b, u, a) ==
    [ i \in DOMAIN b.spherePositions |->
        LET v == VertexShader(b.spherePositions[i], b.wavePositions[i],
                              b.pastelColors[i], u, a)
        IN  [ morphed |-> v.morphed, position |-> v.position,
              color |-> FragmentShader(v.vColor) ] ]

\* no frame drawn yet
NoFrame == << >>

---------------------------------------------------------------------------
(* FrameScheduler: the useFrame callback *)

\* a callback that clamps the blend factor to [0, 1]
UseFrameClamped(ref, u, elapsed, mix) ==
    IF ref THEN [uTime |-> elapsed,
                 uMixFactor |-> IF mix < 0 THEN 0 ELSE Min(mix, One)]
    ELSE u

UseFrame(ref, u, elapsed, mix) ==
    IF ref THEN [uTime |-> elapsed, uMixFactor |-> mix] ELSE u

---------------------------------------------------------------------------
(* The state machine *)

\* ChatPage before anything is typed: no text, no message, no request
InitialChat ==
    [ userMessage |-> << >>, messages |-> << >>, pending |-> {},
      sends |-> 0, completed |-> 0 ]

\* the state after the first render and commit of the view
InitWith(draws) ==
    /\ store = InitialStore
    /\ observed = InitialStore.isProcessing
    /\ spring = NewSpring(InitialStore.isProcessing)
    /\ clock = 0
    /\ uniforms = InitialUniforms
    /\ shaderRef = TRUE
    /\ subscribed = TRUE
    /\ buffers = Generate(Count, draws)
    /\ lastAct = "init"
    /\ flips = 0
    /\ sinceTarget = 0
    /\ count = Count
    /\ axis = PipelineAxis
    /\ rendered = NoFrame
    /\ chat = InitialChat

\* the view built with n points and axis a, and left at rest for t ms with
\* the flag at p. A negative n makes new Float32Array(n * 3) throw a
\* RangeError in the first render: no buffer exists and the view never runs.
InitView(n, draws, a, t, p) ==
    /\ store = StoreSetIsProcessing(InitialStore, p)
    /\ observed = p
    /\ spring = NewSpring(p)
    /\ clock = t
    /\ uniforms = IF t = 0 THEN InitialUniforms
                  ELSE UseFrame(TRUE, InitialUniforms, t, NewSpring(p).position)
    /\ shaderRef = Allocates(n)
    /\ subscribed = Allocates(n)
    /\ buffers = IF Allocates(n) THEN Generate(n, draws) ELSE NoBuffers
    /\ lastAct = IF Allocates(n) THEN "init" ELSE "error"
    /\ flips = 0
    /\ sinceTarget = 0
    /\ count = n
    /\ axis = a
    /\ rendered = NoFrame
    /\ chat = InitialChat

\* one representative sequence of colour draws
Init == InitWith([i \in 0..Count - 1 |-> i % Len(ColorPalette)])

\* every sequence of colour draws
InitField == \E draws \in Draws(Count) : InitWith(draws)

\* the collaborator and the host act between frames, every FlipEvery-th frame
ExternalSlot == (clock \div FrameMs) % FlipEvery = 0

\* the collaborator calls setIsProcessing(processing)
SetIsProcessing(maxFlips) ==
    \E processing \in BOOLEAN :
        /\ ExternalSlot
        /\ processing # store.isProcessing => flips < maxFlips
        /\ store' = StoreSetIsProcessing(store, processing)
        /\ flips' = IF processing # store.isProcessing THEN flips + 1 ELSE flips
        /\ lastAct' = "setIsProcessing"
        /\ UNCHANGED << observed, spring, clock, uniforms, shaderRef,
                        subscribed, buffers, sinceTarget, count, axis,
                        rendered, chat >>

\* EmotionParticles re-renders: after a store change or with its parent
Render ==
    /\ subscribed
    /\ ExternalSlot
    /\ observed' = store.isProcessing
    /\ spring' = UseSpring(spring, store.isProcessing)
    /\ \E draws \in {[i \in 0..count - 1 |-> 0], [i \in 0..count - 1 |-> 1]} :
           buffers' = UseMemoField(buffers, Generate(count, draws))
    /\ uniforms' = UseMemoShaderArgs(uniforms)
    /\ sinceTarget' = IF spring'.to # spring.to THEN 0 ELSE sinceTarget
    /\ lastAct' = "render"
    /\ UNCHANGED << store, clock, shaderRef, subscribed, flips, count, axis,
                    rendered, chat >>

\* a frame callback that clears the processing flag once the wave is reached
TickClearsFlag(maxTicks, draw) ==
    /\ subscribed
    /\ observed = store.isProcessing
    /\ clock < maxTicks * FrameMs
    /\ clock' = clock + FrameMs
    /\ spring' = Advance(spring, FrameMs)
    /\ uniforms' = [uTime |-> clock', uMixFactor |-> spring'.position]
    /\ store' = IF spring'.done THEN StoreSetIsProcessing(store, FALSE) ELSE store
    /\ sinceTarget' = sinceTarget + 1
    /\ \E a \in NormalizeOutcomes(axis) :
           rendered' = IF draw THEN DrawFrame(buffers, uniforms', a) ELSE rendered
    /\ lastAct' = "tick"
    /\ UNCHANGED << observed, shaderRef, subscribed, buffers, flips, count,
                    axis, chat >>

\* one display refresh: the spring advances, the useFrame callback runs and
\* the GPU draws the frame. A pending re-render is flushed before the next
\* frame. The drawn frame feeds nothing back, and is tracked only if draw.
Tick(maxTicks, draw) ==
    /\ subscribed
    /\ observed = store.isProcessing
    /\ clock < maxTicks * FrameMs
    /\ clock' = clock + FrameMs
    /\ spring' = Advance(spring, FrameMs)
    /\ uniforms' = UseFrame(shaderRef, uniforms, clock', spring'.position)
    /\ sinceTarget' = sinceTarget + 1
    /\ \E a \in NormalizeOutcomes(axis) :
           rendered' = IF draw THEN DrawFrame(buffers, uniforms', a) ELSE rendered
    /\ lastAct' = "tick"
    /\ UNCHANGED << store, observed, shaderRef, subscribed, buffers, flips,
                    count, axis, chat >>

\* an unmount that clears the ref but leaves the frame callback registered
TeardownKeepsCallback ==
    /\ subscribed
    /\ shaderRef
    /\ ExternalSlot
    /\ shaderRef' = FALSE
    /\ lastAct' = "teardown"
    /\ UNCHANGED << store, observed, spring, clock, uniforms, subscribed,
                    buffers, flips, sinceTarget, count, axis, rendered, chat >>

\* the view is unmounted: the callback is unregistered and the ref cleared
Teardown ==
    /\ subscribed
    /\ ExternalSlot
    /\ subscribed' = FALSE
    /\ shaderRef' = FALSE
    /\ lastAct' = "teardown"
    /\ UNCHANGED << store, observed, spring, clock, uniforms, buffers, flips,
                    sinceTarget, count, axis, rendered, chat >>

Next ==
    \/ SetIsProcessing(MaxFlips)
    \/ Render
    \/ Tick(MaxTicks, FALSE)
    \/ Teardown

Spec == Init /\ [][Next]_vars

NextField ==
    \/ SetIsProcessing(FieldFlips)
    \/ Render
    \/ Tick(FieldTicks, FALSE)
    \/ Teardown

SpecField == InitField /\ [][NextField]_vars

\* a caller of the store calls setEmotion(newState)
SetEmotion ==
    \E newState \in NewStates :
        /\ store' = StoreSetEmotion(store, newState)
        /\ lastAct' = "setEmotion"
        /\ UNCHANGED << observed, spring, clock, uniforms, shaderRef,
                        subscribed, buffers, flips, sinceTarget, count, axis,
                        rendered, chat >>

\* a caller of the store calls resetEmotion()
ResetEmotion ==
    /\ store' = StoreResetEmotion(store)
    /\ lastAct' = "resetEmotion"
    /\ UNCHANGED << observed, spring, clock, uniforms, shaderRef, subscribed,
                    buffers, flips, sinceTarget, count, axis, rendered, chat >>

\* the store on its own, under any sequence of calls of its three actions
NextStore ==
    \/ SetEmotion
    \/ SetIsProcessing(MaxFlips)
    \/ ResetEmotion

SpecStore == Init /\ [][NextStore]_vars

---------------------------------------------------------------------------
(* ChatPage: handleSend *)

\* the most messages sent in one run
MaxSends == 2

\* what the user types: texts of a space and a letter, up to two characters
Texts == { << >> } \cup { << c >> : c \in { " ", "a" } }
              \cup { << c, d >> : c \in { " ", "a" }, d \in { " ", "a" } }

\* String.prototype.trim
RECURSIVE Trim(_)
Trim(text) ==
    IF text = << >> THEN text
    ELSE IF Head(text) = " " THEN Trim(Tail(text))
    ELSE IF text[Len(text)] = " " THEN Trim(SubSeq(text, 1, Len(text) - 1))
    ELSE text

\* data.output of a response, and the content of the error message
Output == << "o" >>

ErrorContent == << "e" >>

\* data.emotion of a response: either field may be missing
Emotions ==
    { [ emotion_1st_label |-> "joy", emotion_1st_score |-> 9 ],
      [ emotion_1st_label |-> "sadness" ],
      [ emotion_1st_score |-> 3 ],
      [ k \in {} |-> 0 ] }

\* e?.[k] ?? d
OrDefault(e, k, d) == IF k \in DOMAIN e THEN e[k] ELSE d

\* the user edits the input: onChange
TypeMessage ==
    \E text \in Texts :
        /\ ExternalSlot
        /\ text # chat.userMessage
        /\ chat' = [chat EXCEPT !.userMessage = text]
        /\ lastAct' = "type"
        /\ UNCHANGED << store, observed, spring, clock, uniforms, shaderRef,
                        subscribed, buffers, flips, sinceTarget, count, axis,
                        rendered >>

\* handleSend on a blank input: it returns at once
HandleSendBlank ==
    /\ ExternalSlot
    /\ Trim(chat.userMessage) = << >>
    /\ lastAct' = "handleSendBlank"
    /\ UNCHANGED << store, observed, spring, clock, uniforms, shaderRef,
                    subscribed, buffers, flips, sinceTarget, count, axis,
                    rendered, chat >>

\* handleSend up to its await: the user message is appended, the input
\* cleared, the flag raised and the request issued
HandleSend ==
    /\ ExternalSlot
    /\ Trim(chat.userMessage) # << >>
    /\ chat.sends < MaxSends
    /\ chat' = [chat EXCEPT
                   !.messages = Append(@, [ role |-> "user",
                                            content |-> chat.userMessage ]),
                   !.userMessage = << >>,
                   !.pending = @ \cup { [ id |-> chat.sends + 1,
                                          text |-> chat.userMessage ] },
                   !.sends = @ + 1]
    /\ store' = StoreSetIsProcessing(store, TRUE)
    /\ lastAct' = "handleSend"
    /\ UNCHANGED << observed, spring, clock, uniforms, shaderRef, subscribed,
                    buffers, flips, sinceTarget, count, axis, rendered >>

\* a continuation without the finally block: a failure leaves the flag set
ResolveWithoutFinally ==
    \E request \in chat.pending, ok \in BOOLEAN, emotion \in Emotions :
        /\ ExternalSlot
        /\ ok \/ emotion = [ k \in {} |-> 0 ]
        /\ chat' = [chat EXCEPT
                       !.messages = Append(@, [ role |-> "lira",
                           content |-> IF ok THEN Output ELSE ErrorContent ]),
                       !.pending = @ \ { request },
                       !.completed = @ + 1]
        /\ store' = IF ok
                     THEN StoreSetIsProcessing(
                              StoreSetEmotion(store,
                                  [ emotion_1st_label |->
                                        OrDefault(emotion, "emotion_1st_label", "neutral"),
                                    emotion_1st_score |->
                                        OrDefault(emotion, "emotion_1st_score", 0) ]),
                              FALSE)
                     ELSE store
        /\ lastAct' = IF ok THEN "resolved" ELSE "rejected"
        /\ UNCHANGED << observed, spring, clock, uniforms, shaderRef,
                        subscribed, buffers, flips, sinceTarget, count, axis,
                        rendered >>

\* a continuation whose catch block shows nothing to the user
ResolveDropsError ==
    \E request \in chat.pending, ok \in BOOLEAN, emotion \in Emotions :
        /\ ExternalSlot
        /\ ok \/ emotion = [ k \in {} |-> 0 ]
        /\ chat' = [chat EXCEPT
                       !.messages = IF ok
                                    THEN Append(@, [ role |-> "lira",
                                                     content |-> Output ])
                                    ELSE @,
                       !.pending = @ \ { request },
                       !.completed = @ + 1]
        /\ store' = StoreSetIsProcessing(
                         IF ok
                         THEN StoreSetEmotion(store,
                                  [ emotion_1st_label |->
                                        OrDefault(emotion, "emotion_1st_label", "neutral"),
                                    emotion_1st_score |->
                                        OrDefault(emotion, "emotion_1st_score", 0) ])
                         ELSE store,
                         FALSE)
        /\ lastAct' = IF ok THEN "resolved" ELSE "rejected"
        /\ UNCHANGED << observed, spring, clock, uniforms, shaderRef,
                        subscribed, buffers, flips, sinceTarget, count, axis,
                        rendered >>

\* the request of one handleSend settles and the handler runs to its end:
\* on success the emotion is stored and the reply appended, on failure the
\* error message is appended; finally the flag is lowered
Resolve ==
    \E request \in chat.pending, ok \in BOOLEAN, emotion \in Emotions :
        /\ ExternalSlot
        /\ ok \/ emotion = [ k \in {} |-> 0 ]
        /\ chat' = [chat EXCEPT
                       !.messages = Append(@, [ role |-> "lira",
                           content |-> IF ok THEN Output ELSE ErrorContent ]),
                       !.pending = @ \ { request },
                       !.completed = @ + 1]
        /\ store' = StoreSetIsProcessing(
                         IF ok
                         THEN StoreSetEmotion(store,
                                  [ emotion_1st_label |->
                                        OrDefault(emotion, "emotion_1st_label", "neutral"),
                                    emotion_1st_score |->
                                        OrDefault(emotion, "emotion_1st_score", 0) ])
                         ELSE store,
                         FALSE)
        /\ lastAct' = IF ok THEN "resolved" ELSE "rejected"
        /\ UNCHANGED << observed, spring, clock, uniforms, shaderRef,
                        subscribed, buffers, flips, sinceTarget, count, axis,
                        rendered >>

\* the events of the chat page
NextChat ==
    \/ TypeMessage
    \/ HandleSendBlank
    \/ HandleSend
    \/ Resolve

SpecChat == Init /\ [][NextChat]_vars

\* the largest particle count the pipeline is built with
MaxCount == 10

\* the view is started after 0..MaxStart eighths of a turn of the field
MaxStart == 8

\* an eighth of a turn (0.787 s * 0.1 rad/s), on an external slot
StartStep == 164 * FlipEvery * FrameMs

\* rotation axes handed to rotate(): the pipeline's own, and other callers'
Axes == { PipelineAxis, << 1, 0, 0 >>, << 0, 0, 2 >>, << 1, 1, 0 >>,
          << 1, 1, 1 >>, << 1, 2, 2 >>, << 0, 0, 0 >> }

\* the k-th rotation of the palette over the points
DrawsFrom(n, k) == [i \in 0..n - 1 |-> (i + k) % Len(ColorPalette)]

\* every particle count, with every colour at every point
InitLayout ==
    \E n \in -1..MaxCount, k \in 0..Len(ColorPalette) - 1 :
        InitView(n, DrawsFrom(n, k), PipelineAxis, 0, FALSE)

\* every axis, start time and resting shape
InitRotate ==
    \E a \in Axes, j \in 0..MaxStart, p \in BOOLEAN :
        InitView(Count, DrawsFrom(Count, 0), a, j * StartStep, p)

InitPipeline == InitLayout \/ InitRotate

NextPipeline ==
    \/ SetIsProcessing(FieldFlips)
    \/ Render
    \/ Tick((clock \div StartStep) * (StartStep \div FrameMs) + FieldTicks, TRUE)
    \/ Teardown

SpecPipeline == InitPipeline /\ [][NextPipeline]_vars

---------------------------------------------------------------------------
(* MorphController *)

\* C1: the spring target is exactly 0 or 1 in every reachable state, and
\* once the component has observed the processing flag the target is 1
\* exactly when isProcessing is true and 0 exactly when it is false.
C1_TargetFollowsFlag ==
    /\ spring.to \in {0, 1}
    /\ observed = store.isProcessing =>
           /\ store.isProcessing => spring.to = 1
           /\ ~store.isProcessing => spring.to = 0

\* a flip to busy has been observed: the target is 1
C1_Witness ==
    /\ lastAct = "render"
    /\ flips = 1
    /\ store.isProcessing
    /\ observed
    /\ spring.to = 1

\* C2: a flip of the processing flag and the re-render that observes it
\* change neither the live blend value nor its velocity, also while a
\* previous transition is still under way.
C2_RetargetKeepsMotion ==
    [][lastAct' \in {"setIsProcessing", "render"} =>
           /\ spring'.position = spring.position
           /\ spring'.velocity = spring.velocity]_vars

\* the second flip has just been observed in mid-flight
C2_Witness ==
    /\ lastAct = "render"
    /\ flips = 2
    /\ sinceTarget = 0
    /\ spring.to = 0
    /\ ~spring.done
    /\ spring.velocity > 0
    /\ spring.position > 0
    /\ spring.position < One
    /\ spring.from = spring.position

\* C3: between two consecutive states the blend value changes by at most
\* what one tick allows: the current speed for one tick plus one tick of the
\* spring's maximum acceleration (tension * 1 / mass), under any number of
\* flips.
C3_BoundedStep ==
    [][Abs(spring'.position - spring.position)
           <= FrameMs * Abs(spring.velocity)
              + FrameMs * FrameMs * ((Tension * (One \div 1000000)) \div Mass)]_vars

\* the first tick after an idle->busy->idle double flip before settling
C3_Witness ==
    /\ lastAct = "tick"
    /\ flips = 2
    /\ ~store.isProcessing
    /\ sinceTarget = 1
    /\ ~spring.done
    /\ spring.from > 0
    /\ spring.from < One
    /\ spring.position # spring.from

\* C4: 800 ms of ticks after the target last changed (50 ticks of 16 ms),
\* the blend value is within 0.01 of the target and stays there while the
\* target does not change; in particular after a busy->idle flip at
\* blend value 1.
C4_Settles ==
    sinceTarget * FrameMs >= 800 =>
        Abs(spring.position - spring.to * One) <= One \div 100

\* 50 ticks after a busy->idle flip at blend value 1, still animating
C4_Witness ==
    /\ spring.to = 0
    /\ spring.from = One
    /\ flips = 2
    /\ sinceTarget = 50
    /\ ~spring.done
    /\ spring.position # 0

---------------------------------------------------------------------------
(* FrameScheduler *)

\* C5: after every tick with the material mounted, uTime is the elapsed
\* time read in that tick and uMixFactor the live spring value read in that
\* tick, not clamped to [0, 1].
C5_UniformsAreLive ==
    (lastAct = "tick" /\ shaderRef) =>
        /\ uniforms.uTime = clock
        /\ uniforms.uMixFactor = spring.position

\* an overshooting blend value has been written as it is
C5_Witness ==
    /\ lastAct = "tick"
    /\ shaderRef
    /\ spring.position > One
    /\ uniforms.uMixFactor > One

\* C6: uTime starts at 0 and no step (tick, flip, re-render) ever makes it
\* smaller.
C6_TimeMonotonic ==
    /\ uniforms.uTime = 0
    /\ [][uniforms'.uTime >= uniforms.uTime]_vars

\* a re-render after ticks has left uTime where the last tick put it
C6_Witness ==
    /\ lastAct = "render"
    /\ flips = 1
    /\ clock > 0
    /\ uniforms.uTime = clock

\* C7: once the view is torn down no tick runs and the uniforms are never
\* written again, whatever the processing flag does.
C7_NoWorkAfterTeardown ==
    [][~shaderRef => /\ lastAct' # "tick"
                     /\ uniforms' = uniforms
                     /\ ~shaderRef']_vars

\* the flag flipped after the teardown
C7_Witness ==
    /\ ~shaderRef
    /\ ~subscribed
    /\ lastAct = "setIsProcessing"
    /\ store.isProcessing
    /\ ~observed
    /\ uniforms.uTime > 0

---------------------------------------------------------------------------
(* PointFieldGenerator *)

\* C8: the three point buffers never change after the first render: every
\* tick, flip and re-render leaves them as they are.
C8_BuffersImmutable == [][buffers' = buffers]_vars

\* a re-render that observed a flip after frames were drawn
C8_Witness ==
    /\ lastAct = "render"
    /\ flips = 1
    /\ observed
    /\ clock > 0
    /\ buffers.pastelColors[0] # buffers.pastelColors[1]

---------------------------------------------------------------------------
(* The processing flag *)

\* C9: only the collaborator's setter changes the emotion store: no tick,
\* re-render or teardown changes any of its fields.
C9_CoreOnlyReads ==
    [][store' # store => lastAct' = "setIsProcessing"]_vars

\* the spring has reached the wave while the flag is still set
C9_Witness ==
    /\ lastAct = "tick"
    /\ store.isProcessing
    /\ spring.to = 1
    /\ spring.done
    /\ spring.position = One

---------------------------------------------------------------------------
(* PointFieldGenerator *)

\* the y coordinate of line l: l * spacing - lines * spacing / 2
LineY(l) == (l * 3 * Unit) \div 10 - (NumLines * 3 * Unit) \div 20

Norm(v) == Sqrt(v[1] * v[1] + v[2] * v[2] + v[3] * v[3])

\* the tolerance of a norm comparison: 0.001
NormTolerance == Unit \div 1000

\* C12: for every count > 0 the sphere layout holds exactly count points
\* and every point has Euclidean norm equal to the scale 2.5, within
\* tolerance.
C12_SphereLayout ==
    count > 0 =>
        /\ DOMAIN buffers.spherePositions = 0..count - 1
        /\ \A i \in DOMAIN buffers.spherePositions :
               /\ Len(buffers.spherePositions[i]) = 3
               /\ Abs(2 * Norm(buffers.spherePositions[i]) - 5 * Unit)
                      <= 2 * NormTolerance

\* a field of the largest count has been built: its points lie off the
\* axes, on the sphere
C12_Witness ==
    /\ count = MaxCount
    /\ lastAct = "init"
    /\ \E i \in DOMAIN buffers.spherePositions :
           /\ buffers.spherePositions[i][1] # 0
           /\ buffers.spherePositions[i][2] # 0
           /\ buffers.spherePositions[i][3] # 0

---------------------------------------------------------------------------
(* TransformPipeline *)

\* the tolerance of a comparison of rotated coordinates: 0.002
RotateTolerance == Unit \div 500

\* C13: the rotation is rigid. For every point, start time and non-zero
\* axis the rotated position has the norm of the morphed position, within
\* tolerance; for the pipeline's axis (0,1,0) the y component is unchanged
\* and (x, z) is turned by theta = elapsedTime * 0.1.
C13_RotationRigid ==
    Length(axis) # 0 =>
        \A i \in DOMAIN rendered :
            LET v == rendered[i].morphed
                r == rendered[i].position
                theta == uniforms.uTime * 100
            IN  /\ Abs(Norm(r) - Norm(v)) <= RotateTolerance
                /\ axis = << 0, 1, 0 >> =>
                       /\ r[2] = v[2]
                       /\ Abs(r[1] - RoundDiv(Cos(theta) * v[1]
                                   - Sin(theta) * v[3], Unit)) <= RotateTolerance
                       /\ Abs(r[3] - RoundDiv(Sin(theta) * v[1]
                                   + Cos(theta) * v[3], Unit)) <= RotateTolerance

\* a frame drawn after more than a quarter turn about the vertical axis:
\* a point off the axis has moved, and kept its height
C13_Witness ==
    /\ lastAct = "tick"
    /\ axis = << 0, 1, 0 >>
    /\ uniforms.uTime > 2 * StartStep
    /\ \E i \in DOMAIN rendered :
           /\ Abs(rendered[i].position[1] - rendered[i].morphed[1]) > Unit
           /\ rendered[i].position[2] = rendered[i].morphed[2]
           /\ rendered[i].morphed[2] # 0

\* the five colours of the palette: #FFDDC1 #FFABAB #DDFFDD #A7C7E7 #F1CBFF
PaletteTriples ==
    { << 255, 221, 193 >>, << 255, 171, 171 >>, << 221, 255, 221 >>,
      << 167, 199, 231 >>, << 241, 203, 255 >> }

\* C14: at every tick and for every point, the colour output is one of the
\* five palette triples: the colour chosen at generation is a member of the
\* palette and is passed through every frame unchanged, whatever the
\* elapsed time and the blend factor.
C14_ColourFromPalette ==
    /\ \A i \in DOMAIN buffers.pastelColors :
           buffers.pastelColors[i] \in PaletteTriples
    /\ \A i \in DOMAIN rendered :
           /\ << rendered[i].color[1], rendered[i].color[2],
                 rendered[i].color[3] >> = buffers.pastelColors[i]
           /\ << rendered[i].color[1], rendered[i].color[2],
                 rendered[i].color[3] >> \in PaletteTriples
           /\ rendered[i].color[4] = 255

\* a frame drawn in mid-morph that shows all five colours
C14_Witness ==
    /\ lastAct = "tick"
    /\ uniforms.uMixFactor > 0
    /\ uniforms.uMixFactor < One
    /\ uniforms.uTime > 0
    /\ { << rendered[i].color[1], rendered[i].color[2], rendered[i].color[3] >> :
            i \in DOMAIN rendered } = PaletteTriples

\* the wave coordinate of a point, displaced by the ripple
\* sin(x * 2 + elapsedTime) * 0.3 along y
Displaced(w, elapsed) ==
    << w[1], w[2] + RoundDiv(Sin(w[1] * 200 + elapsed * 1000) * 3, 10), w[3] >>

\* C15: the morphed position of a point is the component-wise linear
\* interpolation between its sphere coordinate and its ripple-displaced wave
\* coordinate: at blend 0 it is the sphere coordinate exactly, at blend 1
\* the displaced wave coordinate exactly, and it is a function of the
\* point's own attributes and the two globals only.
C15_MorphIsLerp ==
    \A i \in DOMAIN rendered :
        LET s == buffers.spherePositions[i]
            d == Displaced(buffers.wavePositions[i], uniforms.uTime)
            t == RoundDiv(uniforms.uMixFactor, One \div Unit)
            m == rendered[i].morphed
        IN  /\ uniforms.uMixFactor = 0 => m = s
            /\ uniforms.uMixFactor = One => m = d
            /\ \A k \in 1..3 :
                   Abs(m[k] - (s[k] + RoundDiv((d[k] - s[k]) * t, Unit))) <= 1
            /\ m = VertexShader(s, buffers.wavePositions[i],
                                buffers.pastelColors[i], uniforms,
                                PipelineAxis).morphed

\* a frame drawn at blend 1: a point sits on its wave coordinate, lifted by
\* a non-zero ripple, away from its sphere coordinate
C15_Witness ==
    /\ lastAct = "tick"
    /\ uniforms.uMixFactor = One
    /\ \E i \in DOMAIN rendered :
           /\ rendered[i].morphed[1] = buffers.wavePositions[i][1]
           /\ rendered[i].morphed[2] # buffers.wavePositions[i][2]
           /\ rendered[i].morphed # buffers.spherePositions[i]

---------------------------------------------------------------------------
(* The emotion store *)

\* C18: resetEmotion returns the whole emotion state to the defined initial
\* values: after any sequence of setEmotion and setIsProcessing calls
\* followed by resetEmotion, every field (the three labels and scores,
\* emotion_mode and isProcessing) has the value it had at creation.
C18_ResetRestoresAll ==
    lastAct = "resetEmotion" => store = InitialStore

---------------------------------------------------------------------------
(* ChatPage *)

\* C19: every handleSend with a non-blank message sets isProcessing to true
\* before its request is issued and to false when the request finishes, on
\* success and on failure alike; after a single send whose request has
\* completed isProcessing is false again; a blank or whitespace-only
\* message changes neither isProcessing nor the message list.
C19_SendRaisesAndLowersFlag ==
    [][/\ lastAct' = "handleSend" =>
              /\ store'.isProcessing
              /\ \E request \in chat'.pending : request \notin chat.pending
              /\ Trim(chat.userMessage) # << >>
       /\ lastAct' \in { "resolved", "rejected" } =>
              /\ ~store'.isProcessing
              /\ chat'.completed = chat.completed + 1
       /\ (chat'.sends = 1 /\ chat'.completed = 1) => ~store'.isProcessing
       /\ lastAct' = "handleSendBlank" =>
              /\ store' = store
              /\ chat' = chat]_vars

\* a single send has failed: the error message follows the user message and
\* the flag is down again
C19_Witness ==
    /\ lastAct = "rejected"
    /\ chat.sends = 1
    /\ chat.pending = {}
    /\ Len(chat.messages) = 2
    /\ chat.messages[2].content = ErrorContent
    /\ ~store.isProcessing

\* C20: under any interleaving of overlapping handleSend calls, isProcessing
\* is true in every state in which at least one request is in flight (so
\* that the target of the visualization, which follows the flag, stays at 1
\* until the last pending request has finished).
C20_BusyWhileInFlight ==
    chat.pending # {} => store.isProcessing

\* the number of messages of a role among the first n messages
RECURSIVE CountRole(_, _, _)
CountRole(messages, role, n) ==
    IF n = 0 THEN 0
    ELSE CountRole(messages, role, n - 1)
             + (IF messages[n].role = role THEN 1 ELSE 0)

\* C21: when the request of a send fails, handleSend appends exactly one
\* lira error message after the user's message, leaves the emotion label and
\* score unchanged and completes without propagating the error; on success
\* it appends exactly one lira message with the response output; so every
\* completed non-blank send adds exactly one user message, followed later by
\* exactly one lira message.
C21_OneReplyPerSend ==
    [][/\ lastAct' = "rejected" =>
              /\ chat'.messages = Append(chat.messages,
                                         [ role |-> "lira", content |-> ErrorContent ])
              /\ store' = StoreSetIsProcessing(store, FALSE)
              /\ store'.emotion_1st_label = store.emotion_1st_label
              /\ store'.emotion_1st_score = store.emotion_1st_score
              /\ chat'.completed = chat.completed + 1
       /\ lastAct' = "resolved" =>
              /\ chat'.messages = Append(chat.messages,
                                         [ role |-> "lira", content |-> Output ])
              /\ chat'.completed = chat.completed + 1
       /\ lastAct' = "handleSend" =>
              chat'.messages = Append(chat.messages,
                                      [ role |-> "user", content |-> chat.userMessage ])
       /\ CountRole(chat'.messages, "user", Len(chat'.messages)) = chat'.sends
       /\ CountRole(chat'.messages, "lira", Len(chat'.messages)) = chat'.completed
       /\ \A n \in 0..Len(chat'.messages) :
              CountRole(chat'.messages, "lira", n)
                  <= CountRole(chat'.messages, "user", n)]_vars

\* a second send has failed after a first one succeeded: the error message
\* ends the list and the emotion of the first reply is still stored
C21_Witness ==
    /\ lastAct = "rejected"
    /\ chat.sends = 2
    /\ chat.completed = 2
    /\ Len(chat.messages) = 4
    /\ chat.messages[4] = [ role |-> "lira", content |-> ErrorContent ]
    /\ store.emotion_1st_label = "joy"
    /\ store.emotion_1st_score = 9

=============================================================================
